---- MODULE Spec2Model ----
(***************************************************************************)
(* Model of results.py: the congestion-control test matrix                 *)
(* (TestRunner.run_all_tests / _run_single_test), the aggregation          *)
(* (_prepare_data, _generate_rtt_summary) and main.                        *)
(*                                                                         *)
(* Strings that the code pattern-matches (algorithm ids, file names) are   *)
(* sequences of characters.  A metrics file is a sequence of lines: the    *)
(* header line followed by one rtt value per data row; the empty sequence  *)
(* is an empty file.  Rational results (mean, quantile) are kept as        *)
(* [num, den] pairs.                                                       *)
(***************************************************************************)
EXTENDS Integers, Sequences, FiniteSets, TLC

VARIABLES
    pc,            \* position of the single thread of control
    idx,           \* 1-based position in the profile x algorithm iteration
    logs,          \* files of logs_dir: [name, owner, mtime, lines]
    results,       \* cell -> results/profile_<p>/<a>/<a>_cc_log.csv (a set of at most one file content)
    results0,      \* history: `results` as found at process start
    resultDirs,    \* cells whose result_path directory exists
    logTxt,        \* cells whose log.txt was written by the invocation
    result_file,   \* return value of _run_single_test for the current cell
    test_results,  \* the list run_all_tests builds
    hist,          \* history: one entry per executed cell
    globCalls,     \* history: number of scans of logs_dir
    combined,      \* combined_data of main
    summaryCsv,    \* graphs/rtt_summary.csv as written by this run (a set of at most one table)
    graphs,        \* the image files this run saved into graphs_dir
    message,       \* the final console line of main
    req,           \* locate specification: the algorithm asked for
    located        \* locate specification: the path returned

vars == <<pc, idx, logs, results, results0, resultDirs, logTxt, result_file,
          test_results, hist, globCalls, combined, summaryCsv, graphs,
          message, req, located>>

----------------------------------------------------------------------------
(* Bounds of the model *)

\* data rows of an artifact the driver writes during the matrix
MaxRows == 1
\* cells that an earlier process run completed, leaving its files behind
MaxPre == 1
\* files of the directory in the locate specification
MaxFiles == 2
\* modification times in the locate specification
MaxTime == 2
\* records of the aggregation specification
MaxRecs == 2
\* data rows per record of the aggregation specification
MaxLen == 2
\* rtt samples of the single group of the summary specification
MaxN == 5

----------------------------------------------------------------------------
(* Configuration: TestConfig *)

bbr == <<"b", "b", "r">>
vivace == <<"v", "i", "v", "a", "c", "e">>
vegas == <<"v", "e", "g", "a", "s">>

ALGORITHMS == <<bbr, vivace, vegas>>

PROFILES == <<"low_latency", "high_latency">>

\* An optional value (a path or None, a file or its absence) is a set of at
\* most one element.
None == {}

NoFile == {}

\* the header line of a metrics artifact
Header == "rtt"

\* 0.95 of subset['rtt'].quantile(0.95), as QNum / QDen
QNum == 95

QDen == 100

Range(s) == {s[i] : i \in 1..Len(s)}

IndexOf(s, x) == CHOOSE i \in 1..Len(s) : s[i] = x

NumCells == Len(PROFILES) * Len(ALGORITHMS)

\* the k-th cell algorithm-major: the loops of run_all_tests nested the other way
CellAtAlgorithmMajor(k) ==
    [profile   |-> PROFILES[((k - 1) % Len(PROFILES)) + 1],
     algorithm |-> ALGORITHMS[((k - 1) \div Len(PROFILES)) + 1]]

\* the k-th cell of: for profile in PROFILES: for algorithm in ALGORITHMS
CellAt(k) ==
    [profile   |-> PROFILES[((k - 1) \div Len(ALGORITHMS)) + 1],
     algorithm |-> ALGORITHMS[((k - 1) % Len(ALGORITHMS)) + 1]]

Cells == {[profile |-> p, algorithm |-> a] : p \in Range(PROFILES), a \in Range(ALGORITHMS)}

----------------------------------------------------------------------------
(* File names and the glob of _run_single_test *)

MetricsName(owner, suffix) == <<"metrics_">> \o owner \o <<"_">> \o suffix \o <<".csv">>

IsPrefix(p, s) == Len(p) <= Len(s) /\ SubSeq(s, 1, Len(p)) = p

IsSuffix(p, s) == Len(p) <= Len(s) /\ SubSeq(s, Len(s) - Len(p) + 1, Len(s)) = p

\* fnmatch of a file name against metrics_{algorithm}_*.csv
GlobMatches(algorithm, name) ==
    /\ Len(name) >= Len(algorithm) + 3
    /\ IsPrefix(<<"metrics_">> \o algorithm \o <<"_">>, name)
    /\ IsSuffix(<<".csv">>, name)

Glob(dir, algorithm) == {f \in dir : GlobMatches(algorithm, f.name)}

\* metric_logs[0] after sorted(..., key=getmtime, reverse=True): a file of the
\* greatest mtime; among equal mtimes the order is the directory scan's
NewestOf(files) == {f \in files : \A g \in files : g.mtime <= f.mtime}

----------------------------------------------------------------------------
(* pandas *)

\* pd.read_csv of a file's lines: an empty file raises EmptyDataError, otherwise
\* the first line is the header and every further line a data row
ReadCsv(lines) ==
    IF lines = <<>>
    THEN [ok |-> FALSE, rows |-> <<>>]
    ELSE [ok |-> TRUE, rows |-> [i \in 1..(Len(lines) - 1) |-> [rtt |-> lines[i + 1]]]]

RECURSIVE Flatten(_)
Flatten(frames) ==
    IF frames = <<>> THEN <<>> ELSE frames[1] \o Flatten(Tail(frames))

\* pd.concat(frames, ignore_index=True): raises ValueError on an empty list
PdConcat(frames) ==
    IF frames = <<>>
    THEN [ok |-> FALSE, rows |-> <<>>]
    ELSE [ok |-> TRUE, rows |-> Flatten(frames)]

\* Series.unique(): the distinct values in order of first appearance
RECURSIVE Unique(_)
Unique(s) ==
    IF s = <<>> THEN <<>>
    ELSE LET front == Unique(SubSeq(s, 1, Len(s) - 1))
             last  == s[Len(s)]
         IN  IF last \in Range(front) THEN front ELSE Append(front, last)

RECURSIVE Sum(_)
Sum(s) == IF s = <<>> THEN 0 ELSE s[1] + Sum(Tail(s))

\* Series.mean()
Mean(vals) == [num |-> Sum(vals), den |-> Len(vals)]

\* interpolation 'lower': the order statistic below the position, no interpolation
QuantileLower(vals) ==
    LET sorted == SortSeq(vals, LAMBDA a, b : a < b)
        lo     == (QNum * (Len(vals) - 1)) \div QDen
    IN  [num |-> sorted[lo + 1] * QDen, den |-> QDen]

\* Series.quantile(QNum / QDen), interpolation 'linear': the sorted values at
\* position q * (n - 1), interpolated between the two neighbours
Quantile(vals) ==
    LET sorted == SortSeq(vals, LAMBDA a, b : a < b)
        n      == Len(vals)
        pos    == QNum * (n - 1)
        lo     == pos \div QDen
        frac   == pos % QDen
        hi     == IF lo + 1 > n - 1 THEN n - 1 ELSE lo + 1
    IN  [num |-> sorted[lo + 1] * QDen + (sorted[hi + 1] - sorted[lo + 1]) * frac,
         den |-> QDen]

----------------------------------------------------------------------------
(* TestRunner._prepare_data *)

\* timestamps numbered from 1 instead of range(len(df))
FrameOneBased(result) ==
    [i \in 1..Len(result.data) |->
        [rtt       |-> result.data[i].rtt,
         scheme    |-> result.algorithm,
         profile   |-> result.profile,
         timestamp |-> i]]

\* the loop body: the copy of result.data with scheme, profile and timestamp set
Frame(result) ==
    [i \in 1..Len(result.data) |->
        [rtt       |-> result.data[i].rtt,
         scheme    |-> result.algorithm,
         profile   |-> result.profile,
         timestamp |-> i - 1]]

Frames(rs) == [k \in 1..Len(rs) |-> Frame(rs[k])]

PrepareData(rs) ==
    IF Frames(rs) # <<>> THEN PdConcat(Frames(rs)) ELSE [ok |-> TRUE, rows |-> <<>>]

----------------------------------------------------------------------------
(* TestRunner._generate_rtt_summary *)

Column(data, c) == [i \in 1..Len(data) |-> data[i][c]]

\* data[(data['scheme'] == algorithm) & (data['profile'] == profile)]
Subset(data, algorithm, profile) ==
    SelectSeq(data, LAMBDA row : row.scheme = algorithm /\ row.profile = profile)

\* the pairs visited by: for profile in unique: for algorithm in unique
GroupPairs(data) ==
    LET ps == Unique(Column(data, "profile"))
        as == Unique(Column(data, "scheme"))
    IN  [k \in 1..(Len(ps) * Len(as)) |->
            [profile   |-> ps[((k - 1) \div Len(as)) + 1],
             algorithm |-> as[((k - 1) % Len(as)) + 1]]]

SummaryRow(data, pair) ==
    LET rtts == Column(Subset(data, pair.algorithm, pair.profile), "rtt")
    IN  [Algorithm |-> pair.algorithm,
         Profile   |-> pair.profile,
         AvgRTT    |-> Mean(rtts),
         P95RTT    |-> Quantile(rtts)]

\* rtt_records, the rows of rtt_summary.csv
RttSummary(data) ==
    LET kept == SelectSeq(GroupPairs(data),
                          LAMBDA pair : Subset(data, pair.algorithm, pair.profile) # <<>>)
    IN  [k \in 1..Len(kept) |-> SummaryRow(data, kept[k])]

\* the images generate_plots saves for a non-empty dataset
Plots(data) ==
    {<<"throughput_profile", p>> : p \in Range(Column(data, "profile"))}
        \cup {<<"rtt_summary_plot", "">>, <<"rtt_vs_throughput", "">>}

----------------------------------------------------------------------------
(* The environment of the matrix: the external driver and earlier runs *)

Digits == <<"1", "2", "3", "4", "5", "6", "7", "8", "9">>

\* the lines of an artifact with n data rows written during cell k
ArtifactLines(k, n) == <<Header>> \o [j \in 1..n |-> 10 * k + j]

\* what the driver may leave in logs_dir during cell k: nothing, an empty
\* file, a header alone, or a table of MaxRows data rows
DriverWrites(k) ==
    {{}} \cup {{[name  |-> MetricsName(CellAt(k).algorithm, <<Digits[k]>>),
                 owner |-> CellAt(k).algorithm,
                 mtime |-> k,
                 lines |-> ls]} :
               ls \in {<<>>} \cup {ArtifactLines(k, n) : n \in {0, MaxRows}}}

\* an artifact of algorithm a left in logs_dir by an earlier process run
OldLog(a) ==
    [name |-> MetricsName(a, <<"0">>), owner |-> a, mtime |-> 0, lines |-> <<Header, 1>>]

\* a <algorithm>_cc_log.csv left in a result directory by an earlier process run
OldCopy == <<Header, 2>>

HistEntry(cell, status, wrote) ==
    [cell |-> cell, status |-> status, wrote |-> wrote, scanned |-> FALSE,
     matched |-> {}, picked |-> {}, readOk |-> FALSE, finished |-> FALSE]

Current == CellAt(idx)

LoopPc(k) == IF k > NumCells THEN "prepare" ELSE "invoke"

----------------------------------------------------------------------------
(* main: TestRunner(), run_all_tests, _prepare_data, generate_plots *)

\* after TestRunner.__init__: the three directories exist (mkdir exist_ok),
\* with the artifact and the copy of every cell an earlier run completed
Init ==
    /\ pc = "invoke"
    /\ idx = 1
    /\ \E earlier \in SUBSET Cells :
          /\ Cardinality(earlier) <= MaxPre
          /\ logs = {OldLog(c.algorithm) : c \in earlier}
          /\ results = [c \in Cells |-> IF c \in earlier THEN {OldCopy} ELSE NoFile]
          /\ results0 = results
          /\ resultDirs = earlier
    /\ logTxt = {}
    /\ result_file = None
    /\ test_results = <<>>
    /\ hist = <<>>
    /\ globCalls = 0
    /\ combined = <<>>
    /\ summaryCsv = NoFile
    /\ graphs = {}
    /\ message = ""
    /\ req = <<>>
    /\ located = None

\* a failed invocation that falls through to the scan of logs_dir
RunFailsNoReturn ==
    /\ pc = "invoke"
    /\ idx <= NumCells
    /\ resultDirs' = resultDirs \cup {Current}
    /\ logTxt' = logTxt \cup {Current}
    /\ hist' = Append(hist, HistEntry(Current, 1, {}))
    /\ pc' = "locate"
    /\ UNCHANGED <<idx, logs, results, results0, result_file, test_results, globCalls,
                   combined, summaryCsv, graphs, message, req, located>>

\* a failed invocation that ends the matrix
RunFailsAborts ==
    /\ pc = "invoke"
    /\ idx <= NumCells
    /\ resultDirs' = resultDirs \cup {Current}
    /\ logTxt' = logTxt \cup {Current}
    /\ hist' = Append(hist, [HistEntry(Current, 1, {}) EXCEPT !.finished = TRUE])
    /\ result_file' = None
    /\ idx' = NumCells + 1
    /\ pc' = "prepare"
    /\ UNCHANGED <<logs, results, results0, test_results, globCalls,
                   combined, summaryCsv, graphs, message, req, located>>

\* _run_single_test, subprocess.run raises CalledProcessError: returns None,
\* and run_all_tests goes on to the next cell
RunFails ==
    /\ pc = "invoke"
    /\ idx <= NumCells
    /\ resultDirs' = resultDirs \cup {Current}
    /\ logTxt' = logTxt \cup {Current}
    /\ hist' = Append(hist, [HistEntry(Current, 1, {}) EXCEPT !.finished = TRUE])
    /\ result_file' = None
    /\ idx' = idx + 1
    /\ pc' = LoopPc(idx + 1)
    /\ UNCHANGED <<logs, results, results0, test_results, globCalls,
                   combined, summaryCsv, graphs, message, req, located>>

\* _run_single_test, subprocess.run returns: the driver has exited with status
\* 0 and has written its artifact into logs_dir, or has written none
RunSucceeds ==
    /\ pc = "invoke"
    /\ idx <= NumCells
    /\ resultDirs' = resultDirs \cup {Current}
    /\ logTxt' = logTxt \cup {Current}
    /\ \E wrote \in DriverWrites(idx) :
          /\ logs' = logs \cup wrote
          /\ hist' = Append(hist, HistEntry(Current, 0, wrote))
    /\ pc' = "locate"
    /\ UNCHANGED <<idx, results, results0, result_file, test_results, globCalls,
                   combined, summaryCsv, graphs, message, req, located>>

\* _run_single_test: the glob finds a file, the newest is copied to the result
\* path and the path is returned
LocateFound ==
    /\ pc = "locate"
    /\ Glob(logs, Current.algorithm) # {}
    /\ \E newest_log \in NewestOf(Glob(logs, Current.algorithm)) :
          /\ results' = [results EXCEPT ![Current] = {newest_log.lines}]
          /\ hist' = [hist EXCEPT ![Len(hist)].scanned = TRUE,
                                  ![Len(hist)].matched = Glob(logs, Current.algorithm),
                                  ![Len(hist)].picked = {newest_log}]
    /\ globCalls' = globCalls + 1
    /\ result_file' = {Current}
    /\ pc' = "read"
    /\ UNCHANGED <<idx, logs, results0, resultDirs, logTxt, test_results,
                   combined, summaryCsv, graphs, message, req, located>>

\* _run_single_test: the glob finds nothing, None is returned, and
\* run_all_tests goes on to the next cell
LocateMissing ==
    /\ pc = "locate"
    /\ Glob(logs, Current.algorithm) = {}
    /\ hist' = [hist EXCEPT ![Len(hist)].scanned = TRUE, ![Len(hist)].finished = TRUE]
    /\ globCalls' = globCalls + 1
    /\ result_file' = None
    /\ idx' = idx + 1
    /\ pc' = LoopPc(idx + 1)
    /\ UNCHANGED <<logs, results, results0, resultDirs, logTxt, test_results,
                   combined, summaryCsv, graphs, message, req, located>>

\* run_all_tests: result_file exists, pd.read_csv returns, the TestResult is
\* appended
ReadAppends ==
    /\ pc = "read"
    /\ \E path \in result_file :
          /\ results[path] # NoFile
          /\ \E lines \in results[path] :
                /\ ReadCsv(lines).ok
                /\ test_results' = Append(test_results,
                       [algorithm |-> path.algorithm, profile |-> path.profile,
                        data |-> ReadCsv(lines).rows])
    /\ hist' = [hist EXCEPT ![Len(hist)].readOk = TRUE, ![Len(hist)].finished = TRUE]
    /\ idx' = idx + 1
    /\ pc' = LoopPc(idx + 1)
    /\ UNCHANGED <<logs, results, results0, resultDirs, logTxt, result_file, globCalls,
                   combined, summaryCsv, graphs, message, req, located>>

\* run_all_tests: pd.read_csv raises; nothing catches it, in run_all_tests or
\* in main, and the process ends
ReadRaises ==
    /\ pc = "read"
    /\ \E path \in result_file :
          /\ results[path] # NoFile
          /\ \E lines \in results[path] : ~ReadCsv(lines).ok
    /\ pc' = "crashed"
    /\ UNCHANGED <<idx, logs, results, results0, resultDirs, logTxt, result_file,
                   test_results, hist, globCalls, combined, summaryCsv, graphs,
                   message, req, located>>

\* main: combined_data = runner._prepare_data(test_results)
Prepare ==
    /\ pc = "prepare"
    /\ IF PrepareData(test_results).ok
       THEN /\ combined' = PrepareData(test_results).rows
            /\ pc' = "report"
       ELSE /\ combined' = combined
            /\ pc' = "crashed"
    /\ UNCHANGED <<idx, logs, results, results0, resultDirs, logTxt, result_file,
                   test_results, hist, globCalls, summaryCsv, graphs, message,
                   req, located>>

\* main: combined_data is not empty; generate_plots saves the plots and
\* _generate_rtt_summary writes rtt_summary.csv
ReportPlots ==
    /\ pc = "report"
    /\ combined # <<>>
    /\ summaryCsv' = {RttSummary(combined)}
    /\ graphs' = Plots(combined)
    /\ message' = "[COMPLETE] All tests finished and results saved"
    /\ pc' = "done"
    /\ UNCHANGED <<idx, logs, results, results0, resultDirs, logTxt, result_file,
                   test_results, hist, globCalls, combined, req, located>>

\* main: combined_data is empty
ReportEmpty ==
    /\ pc = "report"
    /\ combined = <<>>
    /\ message' = "[ERROR] No valid test results were collected"
    /\ pc' = "done"
    /\ UNCHANGED <<idx, logs, results, results0, resultDirs, logTxt, result_file,
                   test_results, hist, globCalls, combined, summaryCsv, graphs,
                   req, located>>

Next ==
    \/ RunFails
    \/ RunSucceeds
    \/ LocateFound
    \/ LocateMissing
    \/ ReadAppends
    \/ ReadRaises
    \/ Prepare
    \/ ReportPlots
    \/ ReportEmpty

Spec == Init /\ [][Next]_vars

----------------------------------------------------------------------------
(* The artifact location of _run_single_test on any directory content *)

\* ids of other algorithms: one that continues bbr directly, one after a "_"
bbrp == bbr \o <<"p">>

bbr_p == bbr \o <<"_", "p">>

Tokens == {bbr, bbrp, bbr_p, vegas}

DirFiles ==
    {[name |-> MetricsName(o, <<Digits[d]>>), owner |-> o, mtime |-> t, lines |-> <<Header>>] :
        o \in Tokens, d \in 1..2, t \in 1..MaxTime}

InitLocate ==
    /\ pc = "glob"
    /\ req \in Tokens
    /\ logs \in {d \in SUBSET DirFiles :
                    /\ Cardinality(d) <= MaxFiles
                    /\ \A f, g \in d : f.name = g.name => f = g}
    /\ located = None
    /\ idx = 1
    /\ results = [c \in Cells |-> NoFile]
    /\ results0 = results
    /\ resultDirs = {}
    /\ logTxt = {}
    /\ result_file = None
    /\ test_results = <<>>
    /\ hist = <<>>
    /\ globCalls = 0
    /\ combined = <<>>
    /\ summaryCsv = NoFile
    /\ graphs = {}
    /\ message = ""

\* lines 67-70: the glob matches, metric_logs[0] is taken
GlobFound ==
    /\ pc = "glob"
    /\ Glob(logs, req) # {}
    /\ \E newest_log \in NewestOf(Glob(logs, req)) : located' = {newest_log}
    /\ globCalls' = globCalls + 1
    /\ pc' = "found"
    /\ UNCHANGED <<idx, logs, results, results0, resultDirs, logTxt, result_file,
                   test_results, hist, combined, summaryCsv, graphs, message, req>>

\* lines 67-69, 74-76: the glob matches nothing
GlobNotFound ==
    /\ pc = "glob"
    /\ Glob(logs, req) = {}
    /\ located' = None
    /\ globCalls' = globCalls + 1
    /\ pc' = "notfound"
    /\ UNCHANGED <<idx, logs, results, results0, resultDirs, logTxt, result_file,
                   test_results, hist, combined, summaryCsv, graphs, message, req>>

NextLocate == GlobFound \/ GlobNotFound

SpecLocate == InitLocate /\ [][NextLocate]_vars

----------------------------------------------------------------------------
(* _prepare_data and _generate_rtt_summary on any sequence of records *)

Tables(values, lens) ==
    UNION {[1..n -> {[rtt |-> v] : v \in values}] : n \in lens}

SeqsUpTo(S, n) == UNION {[1..k -> S] : k \in 0..n}

AggInit(records) ==
    /\ pc = "agg_prepare"
    /\ test_results = records
    /\ combined = <<>>
    /\ summaryCsv = NoFile
    /\ graphs = {}
    /\ message = ""
    /\ idx = 1
    /\ logs = {}
    /\ results = [c \in Cells |-> NoFile]
    /\ results0 = results
    /\ resultDirs = {}
    /\ logTxt = {}
    /\ result_file = None
    /\ hist = <<>>
    /\ globCalls = 0
    /\ req = <<>>
    /\ located = None

InitAgg ==
    \E records \in SeqsUpTo([algorithm : {bbr, vegas}, profile : Range(PROFILES),
                             data : Tables({10, 20}, 0..MaxLen)], MaxRecs) :
        AggInit(records)

\* one record whose rtt column is any 1..MaxN samples
InitRtt ==
    \E a \in {bbr}, p \in {"low_latency"}, t \in Tables({10, 20, 30, 40, 50}, 1..MaxN) :
        AggInit(<<[algorithm |-> a, profile |-> p, data |-> t]>>)

\* combined_data = _prepare_data(test_results)
AggPrepare ==
    /\ pc = "agg_prepare"
    /\ IF PrepareData(test_results).ok
       THEN /\ combined' = PrepareData(test_results).rows
            /\ pc' = "agg_summary"
       ELSE /\ combined' = combined
            /\ pc' = "crashed"
    /\ UNCHANGED <<idx, logs, results, results0, resultDirs, logTxt, result_file,
                   test_results, hist, globCalls, summaryCsv, graphs, message,
                   req, located>>

\* _generate_rtt_summary(combined_data), which generate_plots calls on a
\* non-empty dataset
AggSummary ==
    /\ pc = "agg_summary"
    /\ combined # <<>>
    /\ summaryCsv' = {RttSummary(combined)}
    /\ pc' = "agg_done"
    /\ UNCHANGED <<idx, logs, results, results0, resultDirs, logTxt, result_file,
                   test_results, hist, globCalls, combined, graphs, message,
                   req, located>>

NextAgg == AggPrepare \/ AggSummary

SpecAgg == InitAgg /\ [][NextAgg]_vars

SpecRtt == InitRtt /\ [][NextAgg]_vars

----------------------------------------------------------------------------
(* Vocabulary of the properties *)

Readable(f) == f.lines # <<>>

\* how a cell's execution ended, as _run_single_test and run_all_tests see it
Outcome(h) ==
    IF h.status # 0 THEN "ExecutionFailure"
    ELSE IF ~h.scanned THEN "pending"
    ELSE IF h.picked = {} THEN "MissingArtifact"
    ELSE IF \A f \in h.picked : Readable(f) THEN "Success"
    ELSE "ArtifactReadFailure"

Executions(c) == {k \in 1..Len(hist) : hist[k].cell = c}

CellOf(r) == [profile |-> r.profile, algorithm |-> r.algorithm]

RecordCells == [k \in 1..Len(test_results) |-> CellOf(test_results[k])]

\* position of a cell in the declared configuration order, profiles first
Rank(c) == (IndexOf(PROFILES, c.profile) - 1) * Len(ALGORITHMS) + IndexOf(ALGORITHMS, c.algorithm)

InLoop == pc \in {"invoke", "locate", "read"}

Succeeded == SelectSeq(hist, LAMBDA h : h.finished /\ Outcome(h) = "Success")

\* C1: when every cell ends as a success, an ExecutionFailure (non-zero exit)
\* or a MissingArtifact (the scan matches no file), run_all_tests invokes the
\* pipeline exactly once per cell, never stops early, and returns exactly the
\* records of the cells that succeeded.
C1_EveryCellOnceAndSuccessesReturned ==
    (\A k \in 1..Len(hist) : Outcome(hist[k]) # "ArtifactReadFailure") =>
        /\ pc # "crashed"
        /\ \A c \in Cells : Cardinality(Executions(c)) <= 1
        /\ ~InLoop => \A c \in Cells : Cardinality(Executions(c)) = 1
        /\ Len(test_results) = Len(Succeeded)
        /\ \A k \in 1..Len(test_results) :
              /\ CellOf(test_results[k]) = Succeeded[k].cell
              /\ \A f \in Succeeded[k].picked :
                    Len(test_results[k].data) = Len(f.lines) - 1

C1_Witness ==
    /\ pc = "done"
    /\ \E i, j, k \in 1..Len(hist) :
          /\ i < j /\ j < k
          /\ Outcome(hist[i]) = "ExecutionFailure"
          /\ Outcome(hist[j]) = "MissingArtifact"
          /\ Outcome(hist[k]) = "Success"
    /\ Len(test_results) >= 2

\* C2: a cell whose copied artifact is unreadable (an empty file) yields no
\* record and the matrix goes on: the run does not end there.
C2_ReadFailureIsRecoverable ==
    \A k \in 1..Len(hist) : Outcome(hist[k]) = "ArtifactReadFailure" => pc # "crashed"

\* C3: a record of a cell exists only if that cell's own run wrote a
\* non-empty metrics artifact.
C3_RecordOnlyFromOwnArtifact ==
    \A r \in Range(test_results) :
        \E k \in Executions(CellOf(r)) :
            /\ hist[k].wrote # {}
            /\ \A f \in hist[k].wrote : Readable(f)

\* C4: a cell whose invocation returned a non-zero status is not scanned for,
\* gets no copy (its <algorithm>_cc_log is as the process found it) and has no
\* record.
C4_FailedInvocationCopiesNothing ==
    \A k \in 1..Len(hist) :
        hist[k].status # 0 =>
            /\ ~hist[k].scanned
            /\ hist[k].picked = {}
            /\ results[hist[k].cell] = results0[hist[k].cell]
            /\ hist[k].cell \notin Range(RecordCells)
            /\ (k = Len(hist) /\ pc = "invoke") => result_file = None

C4_Witness ==
    \E k \in 1..Len(hist) :
        /\ hist[k].status # 0
        /\ results[hist[k].cell] = {OldCopy}
        /\ Glob(logs, hist[k].cell.algorithm) # {}
        /\ pc = "done"

\* C5: the cells are executed in declared order, profiles first and the
\* algorithms within each profile; a cell is invoked only when the one before
\* it is finished; the returned records are in the same order.
C5_ProfileMajorSequentialOrder ==
    /\ \A k \in 1..Len(hist) : Rank(hist[k].cell) = k
    /\ \A k \in 1..(Len(hist) - 1) : hist[k].finished
    /\ \A i, j \in 1..Len(test_results) :
          i < j => Rank(RecordCells[i]) < Rank(RecordCells[j])

C5_Witness ==
    /\ pc = "done"
    /\ Len(hist) = NumCells
    /\ Len(test_results) = 3
    /\ RecordCells[1].profile = "low_latency"
    /\ RecordCells[2].profile = "high_latency"

Terminated == pc \in {"done", "crashed"}

SuccessfulCells == {hist[k].cell : k \in {i \in 1..Len(hist) : Outcome(hist[i]) = "Success"}}

FailedCells == {hist[k].cell : k \in {i \in 1..Len(hist) :
                    Outcome(hist[i]) \in {"ExecutionFailure", "MissingArtifact", "ArtifactReadFailure"}}}

SuccessesHaveRows ==
    \A k \in 1..Len(hist) :
        Outcome(hist[k]) = "Success" => \A f \in hist[k].picked : Len(f.lines) >= 2

SummaryCells(table) == [k \in 1..Len(table) |-> [profile |-> table[k].Profile, algorithm |-> table[k].Algorithm]]

\* C6: whichever cells fail, when every successful cell's artifact has a data
\* row the run ends with the report produced, and rtt_summary.csv has exactly
\* one row per successful cell, none for a failed cell and no cell twice.
C6_OneSummaryRowPerSuccessfulCell ==
    (Terminated /\ SuccessfulCells # {} /\ SuccessesHaveRows) =>
        /\ summaryCsv # NoFile
        /\ \A table \in summaryCsv :
              /\ Range(SummaryCells(table)) = SuccessfulCells
              /\ Range(SummaryCells(table)) \cap FailedCells = {}
              /\ Cardinality(Range(SummaryCells(table))) = Len(table)

AllRecordsHaveRows == \A r \in Range(test_results) : Len(r.data) >= 1

\* The part of C6 that does hold: when main reaches its end and every record
\* has a data row, rtt_summary.csv has exactly one row per record's cell, none
\* for a cell that returned None, and no cell twice.
SummaryRowPerRecordWhenDone ==
    (pc = "done" /\ test_results # <<>> /\ AllRecordsHaveRows) =>
        /\ summaryCsv # NoFile
        /\ graphs # {}
        /\ \A table \in summaryCsv :
              /\ Len(table) = Len(test_results)
              /\ Range(SummaryCells(table)) = Range(RecordCells)
              /\ Cardinality(Range(SummaryCells(table))) = Len(table)
              /\ \A k \in 1..Len(hist) :
                    Outcome(hist[k]) \in {"ExecutionFailure", "MissingArtifact"} =>
                        hist[k].cell \notin Range(SummaryCells(table))

RECURSIVE RowsBefore(_)
RowsBefore(k) == IF k <= 1 THEN 0 ELSE RowsBefore(k - 1) + Len(test_results[k - 1].data)

\* C7: for a non-empty sequence of records, the dataset has the sum of the
\* records' row counts; the rows are in record order and, within a record, in
\* row order; each carries its record's algorithm and profile; the timestamps
\* of a record's rows are 0, 1, ..., n-1.
C7_PrepareDataConcatenates ==
    (pc \in {"agg_summary", "agg_done"} /\ test_results # <<>>) =>
        /\ Len(combined) = RowsBefore(Len(test_results) + 1)
        /\ \A k \in 1..Len(test_results) :
              \A i \in 1..Len(test_results[k].data) :
                  LET row == combined[RowsBefore(k) + i]
                  IN  /\ row.rtt = test_results[k].data[i].rtt
                      /\ row.scheme = test_results[k].algorithm
                      /\ row.profile = test_results[k].profile
                      /\ row.timestamp = i - 1

C7_Witness ==
    /\ pc = "agg_summary"
    /\ Len(test_results) = 2
    /\ Len(test_results[1].data) = 2
    /\ Len(test_results[2].data) = 2
    /\ test_results[1].data[1].rtt # test_results[1].data[2].rtt
    /\ Len(combined) = 4

NoCellSucceeded == \A k \in 1..Len(hist) : Outcome(hist[k]) # "Success"

\* C8: when no cell of the matrix succeeds, the run ends without raising: the
\* dataset is empty, the final message reports that no valid results were
\* collected, and neither rtt_summary.csv nor any chart is written.
C8_NoSuccessIsReportedNotRaised ==
    (Terminated /\ NoCellSucceeded) =>
        /\ pc = "done"
        /\ combined = <<>>
        /\ message = "[ERROR] No valid test results were collected"
        /\ summaryCsv = NoFile
        /\ graphs = {}

\* The part of C8 that does hold: once run_all_tests has returned no record,
\* main does not raise, the dataset is empty, the message is the error line and
\* nothing is written into graphs_dir.
EmptyReturnIsReported ==
    (test_results = <<>> /\ idx > NumCells) =>
        /\ pc # "crashed"
        /\ combined = <<>>
        /\ summaryCsv = NoFile
        /\ graphs = {}
        /\ pc = "done" => message = "[ERROR] No valid test results were collected"

OwnedBy(dir, algorithm) == {f \in dir : f.owner = algorithm}

\* C9: the location returns nothing when no file of the directory carries the
\* requested algorithm's token, and otherwise a most recently modified file
\* among those whose token is exactly the requested id; never a file of
\* another algorithm.
C9_LocateExactToken ==
    pc \in {"found", "notfound"} =>
        /\ OwnedBy(logs, req) = {} => located = None
        /\ OwnedBy(logs, req) # {} =>
              located # None /\ located \subseteq NewestOf(OwnedBy(logs, req))
        /\ \A f \in located : f.owner = req

Rtts == [i \in 1..Len(test_results[1].data) |-> test_results[1].data[i].rtt]

Count(vals, P(_)) == Cardinality({i \in 1..Len(vals) : P(vals[i])})

\* the k-th smallest value, k counted from 0
OrderStat(vals, k) ==
    CHOOSE v \in Range(vals) :
        Count(vals, LAMBDA x : x < v) <= k /\ k < Count(vals, LAMBDA x : x <= v)

RECURSIVE SetSum(_, _)
SetSum(S, w) ==
    IF S = {} THEN 0 ELSE LET v == CHOOSE x \in S : TRUE IN w[v] * v + SetSum(S \ {v}, w)

\* C10: for a dataset of one group of n >= 1 rtt values, Avg RTT is the exact
\* mean and 95th RTT the value at rank 0.95 * (n - 1) = 19 * (n - 1) / 20 of
\* the sorted values, interpolated linearly between the two order statistics
\* around it; [10,20,30,40,50] gives 30 and 48.
C10_MeanAndInterpolatedPercentile ==
    pc = "agg_done" =>
        \A table \in summaryCsv :
            LET n      == Len(Rtts)
                rank20 == 19 * (n - 1)
                lo     == rank20 \div 20
                hi     == IF lo + 1 <= n - 1 THEN lo + 1 ELSE lo
                below  == OrderStat(Rtts, lo)
                above  == OrderStat(Rtts, hi)
                total  == SetSum(Range(Rtts), [v \in Range(Rtts) |-> Count(Rtts, LAMBDA x : x = v)])
            IN  /\ Len(table) = 1
                /\ table[1].AvgRTT.num * n = total * table[1].AvgRTT.den
                /\ table[1].AvgRTT.den # 0
                /\ table[1].P95RTT.num * 20 =
                       (below * 20 + (above - below) * (rank20 % 20)) * table[1].P95RTT.den
                /\ table[1].P95RTT.den # 0
                /\ Rtts = <<10, 20, 30, 40, 50>> =>
                      /\ table[1].AvgRTT.num = 30 * table[1].AvgRTT.den
                      /\ table[1].P95RTT.num = 48 * table[1].P95RTT.den

C10_Witness ==
    /\ pc = "agg_done"
    /\ Rtts = <<50, 10, 40, 20, 30>>
    /\ \A table \in summaryCsv : table[1].P95RTT.num = 48 * table[1].P95RTT.den
    /\ summaryCsv # NoFile

====
